---- MODULE Spec2Model ----
(***************************************************************************)
(* pg_ducklake_next: a PostgreSQL extension that embeds the DuckLake       *)
(* extension into pg_duckdb's DuckDB instance.                             *)
(*                                                                         *)
(* The repository holds three builds of the extension; a behaviour of the  *)
(* model is one backend process running one of them (variable variant):    *)
(*   "bridge"  : src/pg_ducklake_duckdb.cpp (ducklake_ensure_loaded,       *)
(*               ducklake_execute_query) under the host adapter            *)
(*               pg_ducklake_pg.cpp (ExecuteDuckDBQuery);                  *)
(*   "manager" : pgducklake_duckdb.cpp (DuckLakeManager, catalog_attached, *)
(*               ducklake_load_extension, ducklake_execute_query);         *)
(*   "spi"     : src/pg_ducklake_next.cpp (ExecuteDuckDBQuery over         *)
(*               SPI_execute of duckdb.raw_query).                         *)
(***************************************************************************)
EXTENDS Integers, FiniteSets, Sequences, TLC

(* ------------------------------ bounds -------------------------------- *)
\* Number of threads of the backend process that call the entry points.
NThreads == 2
\* Cap on the executions of DucklakeExtension::Load in one behaviour.
MaxLoadRuns == 2
MaxRegistrations == 2
MaxTxns == 3
MaxPid == 4

Threads == 1..NThreads

Variants == {"bridge", "manager", "spi"}

\* The statements handed to the engine by the callers of the entry points.
Queries == {"ATTACH", "DETACH"}

\* What running one statement in the engine ends in: no error, an error held
\* by the result (result->HasError()), or a thrown std::exception.
EngineErrors == {"Conflict"}
QueryOutcomes == {"ok"} \cup EngineErrors \cup {"Exception"}

\* SPI_execute's return codes: SPI_OK_SELECT, SPI_ERROR_ARGUMENT.
SpiReturnCodes == {5, -6}

NoText == <<>>
NullPtr == 0

(* --------------------------- pure helpers ----------------------------- *)

\* The engine's text for a failure of q: result->GetError() names the
\* error and the statement it arose in, e.what() names the exception.
ErrText(q, o) == IF o \in EngineErrors THEN <<o, q>> ELSE <<o>>

\* "ATTACH failed: " + result->GetError() of the automatic ATTACH.
AttachFailText == <<"ATTACH failed", "pgducklake">>

\* A single static buffer for all threads instead of one per thread.
ErrSlotShared(t) == 1
\* static thread_local std::string last_error: one buffer per thread.
ErrSlot(t) == t

\* Returns 0 also when an exception was caught.
QueryRetSwallowsException(o) == IF o \in EngineErrors THEN 1 ELSE 0
\* ducklake_execute_query's return value for an engine outcome.
QueryRet(o) == IF o = "ok" THEN 0 ELSE 1

\* BeginLoad never answers "already loaded".
BeginLoadNeverNull(st) == FALSE
\* manager.BeginLoad(name) yields nullptr when the extension is already
\* loaded ("if (!info) return; // already loaded -- idempotent").
BeginLoadReturnsNull(st) == st = "loaded"

\* The host adapter's test of the bridge's return code.
AdapterFailsOnNegativeOnly(ret) == ret < 0
AdapterFails(ret) == ret /= 0

\* The SPI adapter's test of SPI_execute's return code.
SpiAdapterFails(ret) == ret < 0

\* FinishLoad leaves the record as it was.
FinishLoadForgets(st) == st
\* info->FinishLoad(install_info) marks the extension's record loaded.
FinishLoad(st) == "loaded"

\* The adapter forwards the query without ensuring the extension first.
AdapterSkipsEnsure == FALSE
\* ExecuteDuckDBQuery (bridge build) calls ducklake_ensure_loaded() before
\* it forwards the query.
AdapterEnsuresFirst == TRUE

\* ExecuteDuckDBQuery reports with ereport and runs under PG_TRY: it runs on
\* the backend's own thread, thread 1. The other threads call the bridge's
\* entry points directly.
IsBackendThread(t) == t = 1

\* ereport(ERROR, ...) without errcode(): PostgreSQL reports every such
\* error with its default SQLSTATE, whatever failed in the engine.
HostKind(o) == "XX000"

\* What dereferencing the NULL returned for a missing instance can do: the
\* process dies, or execution goes on over an invalid object.
UBOutcomes == {"crash", "corrupt"}

\* The DuckDB instance pg_duckdb owns: what GetDuckDBDatabase() and
\* DuckDBManager::Get().GetDatabase() point to once it exists.
PgDuckdbInstance == 1

\* The connection is opened on a DuckDB instance constructed for it.
ConnectionOpensOwnDb(db) == db + 1
\* auto conn = duckdb::make_uniq<duckdb::Connection>(*db): the connection
\* is opened on the instance it is given.
ConnectionDb(db) == db

(* ------------------------------ state --------------------------------- *)
VARIABLES
  variant,          \* which build runs in this process
  engineUp,         \* GetDuckDBDatabase() yields an instance
  engines,          \* the DuckDB instances that exist in the process
  proc,             \* "running", "crashed" or "corrupt" (after UB)
  extState,         \* Extension Registration Record: unloaded/loading/loaded
  loadingBy,        \* threads between BeginLoad and FinishLoad
  loadRuns,         \* executions of extension.Load started
  loadsDone,        \* executions of extension.Load that finished
  catalog_attached, \* static bool catalog_attached (manager build)
  last_error,       \* buffer slot -> text
  pc,               \* per thread: position
  cur,              \* per thread: the call in progress
  last,             \* the call that completed most recently
  catalog,          \* the engine's catalog of pg_ducklake_next_verify
  verify,           \* the run of pg_ducklake_next_verify in progress or last
  stmtLast,         \* the statement the engine was given most recently
  trip,             \* progress of insert, detach, re-attach, select
  pgCatalog,        \* the engine's catalog "pgducklake" (manager build)
  cc,               \* per thread: its ducklake_execute_query in steps
  ccLast,           \* the stepwise call that completed most recently
  registry,         \* Metadata Backend Registry: bindings <<name, factory>>
  policy,           \* what Register does with a bound name, once seen
  regCalls,         \* name -> calls of Register made for it
  regDone,          \* name -> calls of Register that bound it
  firstReg,         \* name -> the factory of the first Register call
  latestReg,        \* name -> the factory of the latest Register call
  made,             \* factories that Create has invoked
  regLast,          \* the registry operation that completed most recently
  pgInit,           \* _PG_init: "no", "called"
  txn,              \* per backend instance: its transaction
  committed,        \* the changes committed to the catalog
  aborted,          \* the changes rolled back
  readLast,         \* the read that completed most recently
  backends,         \* pid -> what the backend with that pid is doing
  touched           \* the names in use by running verify calls, with the
                    \* pid of the backend using each

bridgeVars == <<variant, engineUp, engines, proc, extState, loadingBy,
                loadRuns, loadsDone, catalog_attached, last_error, pc, cur,
                last>>

verifyVars == <<catalog, verify, stmtLast, trip>>

attachVars == <<pgCatalog, cc, ccLast>>

registryVars == <<registry, policy, regCalls, regDone, firstReg, latestReg,
                  made, regLast, pgInit>>

txnVars == <<txn, committed, aborted, readLast>>

sessionVars == <<backends, touched>>

subsystemVars == <<verifyVars, attachVars, registryVars, txnVars,
                   sessionVars>>

vars == <<bridgeVars, subsystemVars>>

NoCall == [adapter |-> FALSE, ensured |-> FALSE]

NoLast == [op |-> "none", q |-> "none", outcome |-> "none",
           exit |-> "none", ret |-> 0, hasOut |-> FALSE, out0 |-> NullPtr,
           out |-> NullPtr,
           msg |-> NoText, engineUp |-> TRUE, db |-> NullPtr,
           rmsg |-> NoText, rdetail |-> "none", rkind |-> "none"]

\* The catalog 'ducklake:pg_ducklake_next_<pid>.ducklake' of this backend:
\* how often its alias is attached, and what its files hold.
NoCatalog == [attached |-> 0, table |-> FALSE, rows |-> <<>>]

\* prev: how the run before this one ended, when nothing but that run has
\* touched the catalog since; direct: a direct statement came after the run.
\* raised: the statement and the failure the ERROR leaving the function
\* reports; connected: SPI_connect succeeded; finishes: the calls of
\* SPI_finish made by the run.
NoRaise == [stmt |-> "none", outcome |-> "none"]
NoRun == [step |-> 0, log |-> <<>>, res |-> "none", prev |-> "none",
          fail |-> "none", direct |-> FALSE, raised |-> NoRaise,
          connected |-> FALSE, finishes |-> 0]

NoStmt == [stmt |-> "none", by |-> "none", wasAttached |-> FALSE,
           outcome |-> "none", rows |-> <<>>]

\* at: where the call stands; seen: the value of catalog_attached it read;
\* att: what its automatic ATTACH did; engine: the engine's answer to it.
NoConn == [at |-> "idle", seen |-> FALSE, att |-> "none", engine |-> "none"]

NoCcLast == [att |-> "none", ret |-> 0, msg |-> NoText]

\* Backend names, and the factories bound to them.
Names == {"pgducklake", "json", "sqlite"}
Factories == {"PgDuckLakeMetadataManager", "JSONMetadataManager",
              "SQLiteMetadataManager"}

\* DuckLake comes with metadata managers registered (postgres,
\* postgres_scanner, sqlite, sqlite_scanner); one of them stands for all.
PreRegistered == {<<"sqlite", "SQLiteMetadataManager">>}

Policies == {"reject", "overwrite"}

NoReg == [op |-> "none", name |-> "none", known |-> FALSE,
          outcome |-> "none", factory |-> "none", changed |-> FALSE,
          host |-> "none"]

\* A Metadata Backend Instance is made for one transaction; the instances
\* are told apart by the thread that owns them.
Instances == Threads

\* n: the instance's transactions so far; wrote: the open one has made its
\* change; snapshot: the changes it saw committed when it began.
NoTxn == [open |-> FALSE, n |-> 0, wrote |-> FALSE, snapshot |-> {}]

NoRead == [by |-> 0, seen |-> {}, dirty |-> {}, leaked |-> {},
           pending |-> {}]

\* The process ids backends can have.
Pids == 1..MaxPid

Init ==
  /\ variant \in Variants
  /\ engineUp = FALSE
  /\ engines = {}
  /\ proc = "running"
  /\ extState = "unloaded"
  /\ loadingBy = {}
  /\ loadRuns = 0
  /\ loadsDone = 0
  /\ catalog_attached = FALSE
  /\ last_error = [s \in Threads |-> NoText]
  /\ pc = [t \in Threads |-> "idle"]
  /\ cur = [t \in Threads |-> NoCall]
  /\ last = NoLast
  /\ catalog = NoCatalog
  /\ verify = NoRun
  /\ stmtLast = NoStmt
  /\ trip = 0
  /\ pgCatalog = NoCatalog
  /\ cc = [t \in Threads |-> NoConn]
  /\ ccLast = NoCcLast
  /\ registry = PreRegistered
  /\ policy = "unset"
  /\ regCalls = [n \in Names |-> 0]
  /\ regDone = [n \in Names |-> 0]
  /\ firstReg = [n \in Names |-> "none"]
  /\ latestReg = [n \in Names |-> "none"]
  /\ made = {}
  /\ regLast = NoReg
  /\ pgInit = "no"
  /\ txn = [i \in Instances |-> NoTxn]
  /\ committed = {}
  /\ aborted = {}
  /\ readLast = NoRead
  /\ backends = [p \in Pids |-> "off"]
  /\ touched = {}

(* ------------------------ the engine instance ------------------------- *)

\* pg_duckdb constructs its DuckDB instance; from then on
\* GetDuckDBDatabase() returns it.
EngineInit ==
  /\ proc = "running"
  /\ ~engineUp
  /\ engineUp' = TRUE
  /\ engines' = engines \cup {PgDuckdbInstance}
  /\ UNCHANGED <<variant, proc, extState, loadingBy, loadRuns, loadsDone,
                 catalog_attached, last_error, pc, cur, last>>
  /\ UNCHANGED subsystemVars

\* GetDuckDBDatabase(): pg_duckdb's instance, or null before it exists.
GetDuckDBDatabase == IF engineUp THEN PgDuckdbInstance ELSE NullPtr

(* ------------------- loading the DuckLake extension ------------------- *)

\* Callers that arrive while a load is in progress wait for it.
GateOpen == loadingBy = {}

\* ducklake_ensure_loaded / ducklake_load_extension returns normally to its
\* caller: the adapter goes on to the query, a direct caller is done.
EnsureReturn(t, adapter, oc) ==
  /\ last' = [NoLast EXCEPT !.op = "ensure", !.outcome = oc,
                            !.exit = "return", !.db = GetDuckDBDatabase]
  /\ IF adapter
       THEN /\ pc' = [pc EXCEPT ![t] = "xq"]
            /\ cur' = [cur EXCEPT ![t] = [adapter |-> TRUE, ensured |-> TRUE]]
       ELSE /\ pc' = [pc EXCEPT ![t] = "idle"]
            /\ cur' = [cur EXCEPT ![t] = NoCall]
  /\ UNCHANGED proc

\* extension.Load threw: nothing in ducklake_ensure_loaded catches, so the
\* exception leaves the extern "C" function. Under the host adapter it
\* unwinds into the backend's C frames, which ends the process.
EnsureThrow(t) ==
  /\ last' = [NoLast EXCEPT !.op = "ensure", !.outcome = "loadfail",
                            !.exit = "exception", !.db = GetDuckDBDatabase]
  /\ pc' = [pc EXCEPT ![t] = "idle"]
  /\ cur' = [cur EXCEPT ![t] = NoCall]
  /\ proc' = IF cur[t].adapter THEN "crashed" ELSE proc

\* LoadStaticExtension: auto info = manager.BeginLoad(extension.Name());
\*                      if (!info) return;
\* with the gate open.
BeginLoadBody(t, adapter) ==
  IF BeginLoadReturnsNull(extState)
    THEN /\ EnsureReturn(t, adapter, "already")
         /\ UNCHANGED <<extState, loadingBy>>
    ELSE /\ loadRuns + Cardinality(loadingBy) < MaxLoadRuns
         /\ extState' = "loading"
         /\ loadingBy' = loadingBy \cup {t}
         /\ pc' = [pc EXCEPT ![t] = "el_load"]
         /\ cur' = [cur EXCEPT ![t] = [adapter |-> adapter, ensured |-> FALSE]]
         /\ UNCHANGED <<last, proc>>

\* db->LoadStaticExtension<duckdb::DucklakeExtension>() with an instance:
\* up to BeginLoad's answer, or to the wait for the load in progress.
EnterLoad(t, adapter) ==
  IF GateOpen
    THEN BeginLoadBody(t, adapter)
    ELSE /\ pc' = [pc EXCEPT ![t] = "el_wait"]
         /\ cur' = [cur EXCEPT ![t] = [adapter |-> adapter, ensured |-> FALSE]]
         /\ UNCHANGED <<extState, loadingBy, last, proc>>

\* ducklake_ensure_loaded() / ducklake_load_extension() called directly:
\*   auto *db = static_cast<duckdb::DuckDB *>(GetDuckDBDatabase());
\*   db->LoadStaticExtension<duckdb::DucklakeExtension>();
\* No test of db: without an instance the call dereferences a null pointer.
LoadCallBody(t) ==
  /\ proc = "running"
  /\ variant \in {"bridge", "manager"}
  /\ pc[t] = "idle"
  /\ IF engineUp
       THEN EnterLoad(t, FALSE)
       ELSE /\ \E o \in UBOutcomes :
                 /\ proc' = IF o = "crash" THEN "crashed" ELSE "corrupt"
                 /\ last' = [NoLast EXCEPT !.op = "ensure",
                                           !.outcome = "nodb", !.exit = o,
                                           !.engineUp = FALSE]
            /\ UNCHANGED <<pc, cur, extState, loadingBy>>
  /\ UNCHANGED <<variant, engineUp, engines, loadRuns, loadsDone,
                 catalog_attached, last_error>>

LoadCall(t) ==
  /\ LoadCallBody(t)
  /\ UNCHANGED subsystemVars

\* A caller that waited in BeginLoad gets its answer once no load is in
\* progress.
BeginLoad(t) ==
  /\ proc = "running"
  /\ pc[t] = "el_wait"
  /\ GateOpen
  /\ BeginLoadBody(t, cur[t].adapter)
  /\ UNCHANGED <<variant, engineUp, engines, loadRuns, loadsDone,
                 catalog_attached, last_error>>
  /\ UNCHANGED subsystemVars

\* LoadStaticExtension: extension.Load(loader); loader.FinalizeLoad();
\*                      info->FinishLoad(install_info);
\* Load may throw; then the record is not marked loaded.
RunLoad(t) ==
  /\ proc = "running"
  /\ pc[t] = "el_load"
  /\ loadRuns' = loadRuns + 1
  /\ loadingBy' = loadingBy \ {t}
  /\ \E ok \in BOOLEAN :
       IF ok
         THEN /\ extState' = FinishLoad(extState)
              /\ loadsDone' = loadsDone + 1
              /\ EnsureReturn(t, cur[t].adapter, "loaded")
         ELSE /\ extState' = IF extState = "loaded" THEN "loaded"
                             ELSE IF loadingBy \ {t} = {} THEN "unloaded"
                             ELSE "loading"
              /\ loadsDone' = loadsDone
              /\ EnsureThrow(t)
  /\ UNCHANGED <<variant, engineUp, engines, catalog_attached, last_error>>
  /\ UNCHANGED subsystemVars

(* -------------------------- running a query --------------------------- *)

\* DuckLakeManager::CreateConnection: what the automatic
\* "ATTACH IF NOT EXISTS 'ducklake:pgducklake:' AS pgducklake" can do in this
\* call: not tried (already attached, or the bridge build), not tried for
\* want of a data directory, succeeded, failed.
AttachChoices ==
  IF variant = "manager" /\ ~catalog_attached
    THEN {"nodir", "ok", "fail"}
    ELSE {"skip"}

\* last_error after ducklake_execute_query on thread t: CreateConnection
\* stores a failed ATTACH, then a failed query stores its own error.
LastErrorAfter(t, q, att, o) ==
  LET le1 == IF att = "fail"
               THEN [last_error EXCEPT ![ErrSlot(t)] = AttachFailText]
               ELSE last_error
  IN IF o = "ok" THEN le1 ELSE [le1 EXCEPT ![ErrSlot(t)] = ErrText(q, o)]

\* *errmsg_out is written on every call that is given one.
OutAlwaysSet(t, hasOut, out0, o) == IF hasOut THEN ErrSlot(t) ELSE out0
\* *errmsg_out after the call: last_error.c_str() on a failure when
\* errmsg_out is given, otherwise what the caller had put there.
OutAfter(t, hasOut, out0, o) ==
  IF o /= "ok" /\ hasOut THEN ErrSlot(t) ELSE out0

\* The text a message pointer leads to.
Deref(le, ptr) == IF ptr = NullPtr THEN NoText ELSE le[ptr]

\* ducklake_execute_query(query, errmsg_out), where *errmsg_out holds out0
\* when the call is made.
QueryCallBody(t, q, hasOut, out0) ==
  /\ proc = "running"
  /\ variant \in {"bridge", "manager"}
  /\ engineUp
  /\ pc[t] = "idle"
  /\ \E att \in AttachChoices, o \in QueryOutcomes :
       LET le == LastErrorAfter(t, q, att, o)
           out == OutAfter(t, hasOut, out0, o)
           db == ConnectionDb(GetDuckDBDatabase)
       IN /\ last_error' = le
          /\ engines' = engines \cup {db}
          /\ catalog_attached' = (catalog_attached \/ att = "ok")
          /\ last' = [NoLast EXCEPT !.op = "query", !.q = q,
                        !.outcome = o, !.exit = "return",
                        !.ret = QueryRet(o), !.hasOut = hasOut,
                        !.out0 = out0, !.out = out,
                        !.msg = Deref(le, out), !.db = db]
  /\ UNCHANGED <<variant, engineUp, proc, extState, loadingBy, loadRuns,
                 loadsDone, pc, cur>>

\* ducklake_execute_query(query, errmsg_out) called directly, by a caller
\* that starts from a NULL message pointer as the host adapter does.
QueryCall(t, q, hasOut) ==
  /\ QueryCallBody(t, q, hasOut, NullPtr)
  /\ UNCHANGED subsystemVars

\* What a caller's message pointer can hold before a call: NULL, or the
\* pointer an earlier failed call on the same thread handed out.
CallerPointers(t, hasOut) ==
  IF hasOut THEN {NullPtr, ErrSlot(t)} ELSE {NullPtr}

\* ducklake_execute_query(query, &errmsg) by a caller that reuses its
\* message pointer from one call to the next.
QueryCallInto(t, q, hasOut, out0) ==
  /\ QueryCallBody(t, q, hasOut, out0)
  /\ UNCHANGED subsystemVars

(* -------------------------- the host adapter -------------------------- *)

UnknownErrorText == <<"unknown error">>
SpiFailedText == <<"pg_ducklake_next: failed to execute DuckDB query">>

\* ExecuteDuckDBQuery(query), bridge build, entered from a SQL function:
\*   const char *errmsg = NULL;  ducklake_ensure_loaded();
\* Its argument plays no part before the query is forwarded, so it is drawn
\* there (AdapterQuery).
AdapterCall(t) ==
  /\ proc = "running"
  /\ variant = "bridge"
  /\ IsBackendThread(t)
  /\ engineUp
  /\ pc[t] = "idle"
  /\ IF AdapterEnsuresFirst
       THEN EnterLoad(t, TRUE)
       ELSE /\ pc' = [pc EXCEPT ![t] = "xq"]
            /\ cur' = [cur EXCEPT ![t] = [adapter |-> TRUE, ensured |-> FALSE]]
            /\ UNCHANGED <<extState, loadingBy, last, proc>>
  /\ UNCHANGED <<variant, engineUp, engines, loadRuns, loadsDone,
                 catalog_attached, last_error>>
  /\ UNCHANGED subsystemVars

\* ExecuteDuckDBQuery, bridge build, after ducklake_ensure_loaded():
\*   ret = ducklake_execute_query(query, &errmsg);
\*   if (ret != 0) ereport(ERROR, (errmsg_internal("...: %s", errmsg ?
\*        errmsg : "unknown error"), errdetail("Query: %s", query)));
AdapterQuery(t, q) ==
  /\ proc = "running"
  /\ pc[t] = "xq"
  /\ \E o \in QueryOutcomes :
       LET le == LastErrorAfter(t, q, "skip", o)
           out == OutAfter(t, TRUE, NullPtr, o)
           ret == QueryRet(o)
           failed == AdapterFails(ret)
           db == ConnectionDb(GetDuckDBDatabase)
       IN /\ last_error' = le
          /\ engines' = engines \cup {db}
          /\ last' = [NoLast EXCEPT !.op = "adapter", !.q = q,
                        !.outcome = o, !.ret = ret, !.hasOut = TRUE,
                        !.out = out, !.msg = Deref(le, out), !.db = db,
                        !.exit = IF failed THEN "error" ELSE "return",
                        !.rmsg = IF ~failed THEN NoText
                                 ELSE IF out /= NullPtr THEN le[out]
                                 ELSE UnknownErrorText,
                        !.rdetail = IF failed THEN q ELSE "none",
                        !.rkind = IF failed THEN HostKind(o) ELSE "none"]
  /\ pc' = [pc EXCEPT ![t] = "idle"]
  /\ cur' = [cur EXCEPT ![t] = NoCall]
  /\ UNCHANGED <<variant, engineUp, proc, extState, loadingBy, loadRuns,
                 loadsDone, catalog_attached>>
  /\ UNCHANGED subsystemVars

\* ExecuteDuckDBQuery(query), SPI build:
\*   int ret = SPI_execute("SELECT duckdb.raw_query(<query>)", false, 0);
\*   if (ret < 0) ereport(ERROR, (errmsg("... failed to execute DuckDB
\*        query"), errdetail("Query: %s", query)));
\* duckdb.raw_query may itself raise an ERROR inside SPI_execute.
SpiAdapterCall(t, q) ==
  /\ proc = "running"
  /\ variant = "spi"
  /\ IsBackendThread(t)
  /\ pc[t] = "idle"
  /\ \E raised \in BOOLEAN, ret \in SpiReturnCodes :
       LET failed == ~raised /\ SpiAdapterFails(ret)
       IN last' = [NoLast EXCEPT !.op = "adapter", !.q = q,
                     !.outcome = IF raised THEN "raised"
                                 ELSE IF failed THEN "spi_error" ELSE "ok",
                     !.ret = IF raised THEN 0 ELSE ret,
                     !.exit = IF raised \/ failed THEN "error" ELSE "return",
                     !.rmsg = IF failed THEN SpiFailedText ELSE NoText,
                     !.rdetail = IF failed THEN q ELSE "none",
                     !.rkind = IF failed THEN HostKind("spi_error")
                               ELSE "none"]
  /\ UNCHANGED <<variant, engineUp, engines, proc, extState, loadingBy,
                 loadRuns, loadsDone, catalog_attached, last_error, pc, cur>>
  /\ UNCHANGED subsystemVars

(* --------------------------- specification ---------------------------- *)

Next ==
  \/ EngineInit
  \/ \E t \in Threads : LoadCall(t)
  \/ \E t \in Threads : BeginLoad(t)
  \/ \E t \in Threads : RunLoad(t)
  \/ \E t \in Threads, q \in Queries, hasOut \in BOOLEAN : QueryCall(t, q, hasOut)
  \/ \E t \in Threads : AdapterCall(t)
  \/ \E t \in Threads, q \in Queries : AdapterQuery(t, q)
  \/ \E t \in Threads, q \in Queries : SpiAdapterCall(t, q)

Spec == Init /\ [][Next]_vars

\* Calls made in sequence: a thread starts a call only while no other
\* thread is inside one.
Quiet(t) == \A u \in Threads \ {t} : pc[u] = "idle"

NextSeq ==
  \/ EngineInit
  \/ \E t \in Threads : Quiet(t) /\ LoadCall(t)
  \/ \E t \in Threads : RunLoad(t)
  \/ \E t \in Threads, q \in Queries, hasOut \in BOOLEAN :
       Quiet(t) /\ QueryCall(t, q, hasOut)
  \/ \E t \in Threads : Quiet(t) /\ AdapterCall(t)
  \/ \E t \in Threads, q \in Queries : AdapterQuery(t, q)
  \/ \E t \in Threads, q \in Queries : SpiAdapterCall(t, q)

SpecSeq == Init /\ [][NextSeq]_vars

\* The bridge build alone (pg_ducklake_duckdb.cpp under pg_ducklake_pg.cpp).
InitBridge == Init /\ variant = "bridge"

NextBridge ==
  \/ EngineInit
  \/ \E t \in Threads : LoadCall(t)
  \/ \E t \in Threads : BeginLoad(t)
  \/ \E t \in Threads : RunLoad(t)
  \/ \E t \in Threads, q \in Queries, hasOut \in BOOLEAN :
       QueryCall(t, q, hasOut)
  \/ \E t \in Threads : AdapterCall(t)
  \/ \E t \in Threads, q \in Queries : AdapterQuery(t, q)

SpecBridge == InitBridge /\ [][NextBridge]_vars

\* The bridge build with callers that do not reset their message pointer
\* between calls.
InitErrmsg == Init /\ variant = "bridge"

NextErrmsg ==
  \/ EngineInit
  \/ \E t \in Threads : RunLoad(t)
  \/ \E t \in Threads, q \in Queries, hasOut \in BOOLEAN :
       \E out0 \in CallerPointers(t, hasOut) :
         QueryCallInto(t, q, hasOut, out0)
  \/ \E t \in Threads : AdapterCall(t)
  \/ \E t \in Threads, q \in Queries : AdapterQuery(t, q)

SpecErrmsg == InitErrmsg /\ [][NextErrmsg]_vars

(* ------------------------------ claims -------------------------------- *)

\* A ducklake_ensure_loaded / ducklake_load_extension call has come back to
\* its caller, normally or with an exception.
EnsureCameBack == last.op = "ensure" /\ last.exit \in {"return", "exception"}

\* C1, as stated: after any number of load calls made in sequence the
\* extension's Load routine has run exactly once.
C1_LoadRunsExactlyOnce == EnsureCameBack => loadRuns = 1

\* C1, amended: with load calls made in sequence, Load finishes at most
\* once; a call returns normally only when the extension is loaded; and once
\* Load has finished no call runs it again (a Load that threw is run again
\* by the next call).
C1_LoadSucceedsOnce ==
  /\ loadsDone <= 1
  /\ loadsDone = 1 => extState = "loaded" /\ loadingBy = {}
  /\ last.op = "ensure" /\ last.exit = "return" => loadsDone = 1

\* C1 witness: Load threw once, the next call ran it to the end, and a call
\* after that returned without running it.
C1_Witness ==
  /\ loadRuns = 2
  /\ loadsDone = 1
  /\ last.op = "ensure"
  /\ last.outcome = "already"

\* C2, as stated: with concurrent callers exactly one load executes and no
\* caller returns before it has resolved.
C2_ExactlyOneLoadExecutes ==
  /\ loadRuns + Cardinality(loadingBy) <= 1
  /\ last.op = "ensure" /\ last.exit = "return" => loadRuns = 1

\* C2, amended: with concurrent callers at most one load executes at a time
\* and at most one finishes; a caller that arrives while a load is in
\* progress waits; no caller returns normally before a load has finished,
\* and nobody is loading once one has (after a Load that threw, a waiting
\* caller runs Load again).
C2_OneLoadAtATime ==
  /\ Cardinality(loadingBy) <= 1
  /\ loadsDone <= 1
  /\ loadsDone = 1 => loadingBy = {}
  /\ \A t \in Threads : pc[t] = "el_load" <=> t \in loadingBy
  /\ last.op = "ensure" /\ last.exit = "return" => extState = "loaded"

\* C2 witness: one caller waits while another one's load is in progress.
C2_Witness ==
  \E t, u \in Threads :
    /\ pc[t] = "el_load"
    /\ pc[u] = "el_wait"
    /\ loadingBy = {t}

\* C3: once the extension is loaded, no step of any operation (load calls,
\* queries, attach, detach, adapter calls) takes it out of that state.
C3_LoadedStaysLoaded == [][extState = "loaded" => extState' = "loaded"]_vars

\* C3 witness: a DETACH query has completed after the load, and the
\* extension is still loaded.
C3_Witness ==
  /\ extState = "loaded"
  /\ loadsDone = 1
  /\ last.op = "query"
  /\ last.q = "DETACH"
  /\ last.outcome = "ok"

\* C4: no bridge entry point lets a failure leave it as an exception; a
\* failing extension load too comes back as a return code and a message.
C4_NoExceptionCrossesBridge ==
  last.op \in {"ensure", "query"} /\ last.engineUp => last.exit = "return"

\* C5: without an engine instance a load call does not attempt the load and
\* reports "engine not ready", leaving the process able to retry.
C5_NotReadyIsReported ==
  last.op = "ensure" /\ ~last.engineUp
    => last.exit = "not_ready" /\ proc = "running"

\* A completed ducklake_execute_query call, made directly or by the bridge
\* build's adapter.
IsBridgeQuery == last.op = "query" \/ (last.op = "adapter" /\ variant = "bridge")

StepOf(u) ==
  \/ LoadCall(u)
  \/ BeginLoad(u)
  \/ RunLoad(u)
  \/ AdapterCall(u)
  \/ /\ last'.op = "query"
     /\ QueryCall(u, last'.q, last'.hasOut)
  \/ /\ last'.op = "adapter"
     /\ AdapterQuery(u, last'.q) \/ SpiAdapterCall(u, last'.q)

\* A step of thread t that is not a ducklake_execute_query call.
NonQueryStepOf(t) == LoadCall(t) \/ BeginLoad(t) \/ RunLoad(t) \/ AdapterCall(t)

\* C7: the message a thread was handed keeps its content through every step
\* of every other thread, and through the thread's own steps other than a
\* ducklake_execute_query call.
C7_MessageStable ==
  [][\A t \in Threads :
       \/ last_error'[ErrSlot(t)] = last_error[ErrSlot(t)]
       \/ ~(NonQueryStepOf(t) \/ \E u \in Threads \ {t} : StepOf(u))]_vars

\* C7 witness: a call has just handed out a message while another thread
\* still holds a different message from an earlier failing call.
C7_Witness ==
  /\ last.op = "query"
  /\ last.out /= NullPtr
  /\ \E t \in Threads :
       /\ ErrSlot(t) /= last.out
       /\ last_error[ErrSlot(t)] /= NoText
       /\ last_error[ErrSlot(t)] /= last.msg

\* C8: in the bridge build's adapter a query is forwarded only after the
\* ducklake_ensure_loaded call of the same invocation has completed, with
\* the extension loaded.
C8_EnsureBeforeQuery ==
  \A t \in Threads :
    pc[t] = "xq" => cur[t].adapter /\ cur[t].ensured /\ extState = "loaded"

\* C8 witness: the adapter is about to forward its query, and the
\* ducklake_ensure_loaded call before it did the load.
C8_Witness ==
  \E t \in Threads :
    /\ pc[t] = "xq"
    /\ cur[t].ensured
    /\ last.op = "ensure"
    /\ last.outcome = "loaded"

\* The query ExecuteDuckDBQuery forwarded has failed: a non-zero return of
\* the bridge, a negative return of SPI_execute.
ForwardedQueryFailed ==
  /\ last.op = "adapter"
  /\ IF variant = "bridge" THEN last.ret /= 0 ELSE last.ret < 0

\* C9: after a failed forwarded query ExecuteDuckDBQuery raises a host ERROR
\* with the query text and, in the bridge build, the engine's message; it
\* does not return normally.
C9_FailedQueryRaisesError ==
  ForwardedQueryFailed =>
    /\ last.exit = "error"
    /\ last.rdetail = last.q
    /\ variant = "bridge" => last.rmsg = ErrText(last.q, last.outcome)
    /\ variant = "spi" => last.rmsg = SpiFailedText

\* C9 witness: the bridge build's adapter has raised an ERROR carrying the
\* text of an engine exception.
C9_Witness ==
  /\ variant = "bridge"
  /\ last.op = "adapter"
  /\ last.outcome = "Exception"
  /\ last.exit = "error"
  /\ last.rmsg = ErrText(last.q, "Exception")
  /\ last.rdetail = last.q

\* ExecuteDuckDBQuery itself reported the failure recorded in l.
Reported(l) == l.op = "adapter" /\ l.exit = "error" /\ l.outcome /= "raised"

\* The failures ExecuteDuckDBQuery can come to report.
ReportableFailures == (QueryOutcomes \ {"ok"}) \cup {"spi_error"}

\* C10: the kind the adapter reports with a failure tells that failure
\* apart from every failure of another kind.
C10_KindsDistinguishable ==
  Reported(last) =>
    \A o \in ReportableFailures \ {last.outcome} : HostKind(o) /= last.rkind

(* ---------------- pg_ducklake_next_verify and its catalog ------------- *)

\* The statements pg_ducklake_next_verify issues, in the order of its code.
BridgePlan == <<"ATTACH", "CREATE", "INSERT", "SELECT", "DETACH">>
SpiPlan == <<"INSTALL", "LOAD">> \o BridgePlan
VerifyPlan(v) == IF v = "spi" THEN SpiPlan ELSE BridgePlan

\* Statements other callers send to the engine for the same alias.
DirectStatements == {"ATTACH_INE", "DETACH", "SELECT"}

\* INSERT INTO <alias>.verify_table VALUES (1), (2)
VerifyValues == <<1, 2>>

\* The orders in which the engine may store the inserted rows.
StoreOrders == {VerifyValues, <<VerifyValues[2], VerifyValues[1]>>}

\* The select carries no ORDER BY.
SelectUnordered == FALSE
\* SELECT i FROM <alias>.verify_table ORDER BY i
SelectOrdered == TRUE

\* Errors the engine raises because of what the catalog holds.
StateErrors == {"Conflict", "NotFound"}

\* Failures that do not come from the catalog's state.
EnvOutcomes == {"ok", "Exception"}

RECURSIVE InsertSorted(_, _)
InsertSorted(x, s) ==
  IF s = <<>> THEN <<x>>
  ELSE IF x <= Head(s) THEN <<x>> \o s
  ELSE <<Head(s)>> \o InsertSorted(x, Tail(s))

RECURSIVE SortRows(_)
SortRows(s) ==
  IF s = <<>> THEN <<>> ELSE InsertSorted(Head(s), SortRows(Tail(s)))

\* DETACH drops what the catalog holds.
AfterDetachForgets(c) == [c EXCEPT !.attached = @ - 1, !.table = FALSE,
                                   !.rows = <<>>]
\* DETACH unmounts the catalog; its metadata and data files stay.
AfterDetach(c) == [c EXCEPT !.attached = @ - 1]

\* What the engine does with one statement on catalog c: the outcome, the
\* catalog afterwards, the rows returned.
EngineExec(c, stmt, order) ==
  LET res(o, c2, rows) == [outcome |-> o, catalog |-> c2, rows |-> rows]
      mounted == c.attached > 0
  IN CASE stmt \in {"INSTALL", "LOAD"} -> res("ok", c, <<>>)
       [] stmt = "ATTACH" ->
            IF mounted THEN res("Conflict", c, <<>>)
            ELSE res("ok", [c EXCEPT !.attached = @ + 1], <<>>)
       [] stmt = "ATTACH_INE" ->
            IF mounted THEN res("ok", c, <<>>)
            ELSE res("ok", [c EXCEPT !.attached = @ + 1], <<>>)
       [] stmt = "CREATE" ->
            IF ~mounted THEN res("NotFound", c, <<>>)
            ELSE IF c.table THEN res("Conflict", c, <<>>)
            ELSE res("ok", [c EXCEPT !.table = TRUE], <<>>)
       [] stmt = "INSERT" ->
            IF ~mounted \/ ~c.table THEN res("NotFound", c, <<>>)
            ELSE res("ok", [c EXCEPT !.rows = @ \o order], <<>>)
       [] stmt = "SELECT" ->
            IF ~mounted \/ ~c.table THEN res("NotFound", c, <<>>)
            ELSE res("ok", c, IF SelectOrdered THEN SortRows(c.rows)
                              ELSE c.rows)
       [] stmt = "DETACH" ->
            IF ~mounted THEN res("NotFound", c, <<>>)
            ELSE res("ok", AfterDetach(c), <<>>)

\* The outcome of a statement sent to the engine: an environmental failure
\* leaves the catalog alone, otherwise the engine decides.
StmtOutcome(env, r) == IF env = "ok" THEN r.outcome ELSE env

\* insert (1),(2); detach; re-attach "if not exists"; select.
TripAfter(stmt, o) ==
  IF o /= "ok" THEN trip
  ELSE IF trip = 0 /\ stmt = "INSERT" THEN 1
  ELSE IF trip = 1 /\ stmt = "DETACH" THEN 2
  ELSE IF trip = 2 /\ stmt = "ATTACH_INE" THEN 3
  ELSE IF trip = 3 /\ stmt = "SELECT" THEN 4
  ELSE trip

\* The ERROR of a failed statement leaves the function: PG_CATCH re-throws
\* it and no statement of the plan follows.
StepAfterFailure(step) == 0

\* SPI_finish is called after PG_END_TRY only.
SpiFinishOnReturnOnly(exit) == IF exit = "return" THEN 1 ELSE 0
\* The calls of SPI_finish on a way out of the SPI build's function: one in
\* PG_CATCH before PG_RE_THROW, one after PG_END_TRY before the return.
SpiFinishCalls(exit) == 1

\* SPI_finish as the build of the running variant calls it: the bridge
\* build never connects to SPI.
FinishesOn(exit) == IF variant = "spi" THEN SpiFinishCalls(exit) ELSE 0

\* pg_ducklake_next_verify() is called: the SPI build connects to SPI
\* first and raises an ERROR when that fails.
VerifyCall(t) ==
  /\ proc = "running"
  /\ variant \in {"bridge", "spi"}
  /\ IsBackendThread(t)
  /\ variant = "bridge" => engineUp
  /\ pc[t] = "idle"
  /\ verify.step = 0
  /\ \E connected \in BOOLEAN :
       LET prev == IF verify.direct THEN "none" ELSE verify.res
       IN verify' = IF variant = "spi" /\ ~connected
                      THEN [NoRun EXCEPT !.res = "error", !.prev = prev,
                                         !.fail = "env",
                                         !.raised = [stmt |-> "SPI_connect",
                                                     outcome |-> "spi_error"]]
                      ELSE [NoRun EXCEPT !.step = 1, !.res = "running",
                                         !.prev = prev,
                                         !.connected = variant = "spi"]
  /\ UNCHANGED <<bridgeVars, catalog, stmtLast, trip, attachVars,
                 registryVars,
                 txnVars, sessionVars>>

\* One ExecuteDuckDBQuery(<statement>) of pg_ducklake_next_verify. The
\* bridge build ensures the extension first (a load that throws ends the
\* process) and raises an ERROR on a non-zero return code; in the SPI build
\* SPI_execute returns a negative code without running the statement, or
\* duckdb.raw_query raises the engine's error. An ERROR leaves the function
\* through PG_CATCH / PG_RE_THROW, which sends nothing more to the engine.
VerifyStep(t) ==
  /\ proc = "running"
  /\ IsBackendThread(t)
  /\ verify.step > 0
  /\ LET plan == VerifyPlan(variant)
         stmt == plan[verify.step]
     IN \E loads \in BOOLEAN, env \in EnvOutcomes, order \in StoreOrders,
           ret \in SpiReturnCodes :
          LET mustLoad == variant = "bridge" /\ AdapterEnsuresFirst
                          /\ ~BeginLoadReturnsNull(extState)
              spiError == variant = "spi" /\ SpiAdapterFails(ret)
              r == EngineExec(catalog, stmt, order)
              o == IF spiError THEN "spi_error" ELSE StmtOutcome(env, r)
              failed == IF variant = "spi" THEN o /= "ok"
                        ELSE AdapterFails(QueryRet(o))
              entry == [stmt |-> stmt, outcome |-> o]
          IN IF mustLoad /\ ~loads
               THEN /\ proc' = "crashed"
                    /\ loadRuns' = loadRuns + 1
                    /\ verify' = [verify EXCEPT !.step = 0, !.res = "crashed",
                                                !.fail = "env"]
                    /\ last' = [NoLast EXCEPT !.op = "ensure",
                                  !.outcome = "loadfail", !.exit = "exception",
                                  !.db = GetDuckDBDatabase]
                    /\ UNCHANGED <<extState, loadsDone, last_error, engines,
                                   catalog, stmtLast, trip>>
               ELSE /\ extState' = IF mustLoad THEN FinishLoad(extState)
                                   ELSE extState
                    /\ loadRuns' = IF mustLoad THEN loadRuns + 1 ELSE loadRuns
                    /\ loadsDone' = IF mustLoad THEN loadsDone + 1
                                    ELSE loadsDone
                    /\ catalog' = IF o = "ok" THEN r.catalog ELSE catalog
                    /\ last_error' =
                         IF variant = "spi" THEN last_error
                         ELSE LastErrorAfter(t, stmt, "skip", o)
                    /\ engines' =
                         IF variant = "spi" THEN engines
                         ELSE engines \cup {ConnectionDb(GetDuckDBDatabase)}
                    /\ stmtLast' = [stmt |-> stmt, by |-> "verify",
                                    wasAttached |-> catalog.attached > 0,
                                    outcome |-> o,
                                    rows |-> IF o = "ok" THEN r.rows ELSE <<>>]
                    /\ trip' = TripAfter(stmt, o)
                    /\ verify' =
                         IF failed
                           THEN [verify EXCEPT
                                   !.step = StepAfterFailure(@),
                                   !.res = "error",
                                   !.log = Append(@, entry),
                                   !.fail = IF o \in StateErrors THEN "state"
                                            ELSE "env",
                                   !.raised = entry,
                                   !.finishes = @ + FinishesOn("rethrow")]
                         ELSE IF verify.step = Len(plan)
                           THEN [verify EXCEPT !.step = 0, !.res = "ok",
                                   !.log = Append(@, entry),
                                   !.finishes = @ + FinishesOn("return")]
                         ELSE [verify EXCEPT !.step = @ + 1,
                                   !.log = Append(@, entry)]
                    /\ UNCHANGED <<proc, last>>
  /\ UNCHANGED <<variant, engineUp, loadingBy, catalog_attached, pc, cur,
                 attachVars, registryVars,
                 txnVars, sessionVars>>

\* Another caller sends a statement for the same alias to the engine
\* (ducklake_execute_query, or duckdb.raw_query in the SPI build) while no
\* run of pg_ducklake_next_verify is in progress.
DirectStmt(t, stmt) ==
  /\ proc = "running"
  /\ variant \in {"bridge", "spi"}
  /\ variant = "bridge" => engineUp
  /\ pc[t] = "idle"
  /\ verify.step = 0
  /\ \E env \in EnvOutcomes, order \in StoreOrders :
       LET r == EngineExec(catalog, stmt, order)
           o == StmtOutcome(env, r)
       IN /\ catalog' = IF o = "ok" THEN r.catalog ELSE catalog
          /\ last_error' = IF variant = "spi" THEN last_error
                           ELSE LastErrorAfter(t, stmt, "skip", o)
          /\ engines' = IF variant = "spi" THEN engines
                        ELSE engines \cup {ConnectionDb(GetDuckDBDatabase)}
          /\ stmtLast' = [stmt |-> stmt, by |-> "direct",
                          wasAttached |-> catalog.attached > 0,
                          outcome |-> o,
                          rows |-> IF o = "ok" THEN r.rows ELSE <<>>]
          /\ trip' = TripAfter(stmt, o)
  /\ verify' = [verify EXCEPT !.direct = TRUE]
  /\ UNCHANGED <<variant, engineUp, proc, extState, loadingBy, loadRuns,
                 loadsDone, catalog_attached, pc, cur, last, attachVars,
                 registryVars,
                 txnVars, sessionVars>>

InitVerify == Init /\ variant \in {"bridge", "spi"}

NextVerify ==
  \/ EngineInit
  \/ \E t \in Threads : VerifyCall(t)
  \/ \E t \in Threads : VerifyStep(t)
  \/ \E t \in Threads, stmt \in DirectStatements : DirectStmt(t, stmt)

SpecVerify == InitVerify /\ [][NextVerify]_vars

(* ------------- DuckLakeManager::CreateConnection in steps ------------- *)

\* The automatic attach is a plain ATTACH.
AutoAttachPlain == "ATTACH"
\* "ATTACH IF NOT EXISTS 'ducklake:pgducklake:' AS pgducklake (...)"
AutoAttachStmt == "ATTACH_INE"

\* ducklake_execute_query enters CreateConnection: opens a connection on
\* pg_duckdb's instance and reads catalog_attached (a plain static bool,
\* read and written without synchronisation); with the flag clear it asks
\* for the data directory.
CcBegin(t) ==
  /\ proc = "running"
  /\ variant = "manager"
  /\ engineUp
  /\ pc[t] = "idle"
  /\ cc[t].at = "idle"
  /\ engines' = engines \cup {ConnectionDb(GetDuckDBDatabase)}
  /\ \E hasDir \in BOOLEAN :
       cc' = [cc EXCEPT ![t] =
                IF catalog_attached
                  THEN [NoConn EXCEPT !.at = "query", !.seen = TRUE]
                ELSE IF ~hasDir
                  THEN [NoConn EXCEPT !.at = "query", !.att = "nodir"]
                ELSE [NoConn EXCEPT !.at = "attach"]]
  /\ UNCHANGED <<variant, engineUp, proc, extState, loadingBy, loadRuns,
                 loadsDone, catalog_attached, last_error, pc, cur, last,
                 pgCatalog, ccLast, verifyVars, registryVars,
                 txnVars, sessionVars>>

\* auto result = conn->Query(attach_query);
\* if (result->HasError()) last_error = "ATTACH failed: " + GetError();
CcAttach(t) ==
  /\ proc = "running"
  /\ cc[t].at = "attach"
  /\ \E env \in EnvOutcomes :
       LET r == EngineExec(pgCatalog, AutoAttachStmt, <<>>)
           o == StmtOutcome(env, r)
       IN /\ pgCatalog' = IF o = "ok" THEN r.catalog ELSE pgCatalog
          /\ cc' = [cc EXCEPT ![t].engine = o,
                              ![t].att = IF o = "ok" THEN "ok" ELSE "fail",
                              ![t].at = IF o = "ok" THEN "write" ELSE "query"]
          /\ last_error' = IF o = "ok" THEN last_error
                           ELSE [last_error EXCEPT ![ErrSlot(t)] =
                                                     AttachFailText]
  /\ UNCHANGED <<variant, engineUp, engines, proc, extState, loadingBy,
                 loadRuns, loadsDone, catalog_attached, pc, cur, last,
                 ccLast, verifyVars, registryVars,
                 txnVars, sessionVars>>

\* catalog_attached = true;
CcWrite(t) ==
  /\ proc = "running"
  /\ cc[t].at = "write"
  /\ catalog_attached' = TRUE
  /\ cc' = [cc EXCEPT ![t].at = "query"]
  /\ UNCHANGED <<variant, engineUp, engines, proc, extState, loadingBy,
                 loadRuns, loadsDone, last_error, pc, cur, last,
                 pgCatalog, ccLast, verifyVars, registryVars,
                 txnVars, sessionVars>>

\* DuckLakeManager::ExecuteQuery after CreateConnection returned:
\*   auto result = conn->Query(query);
\*   if (result->HasError()) { last_error = ...; return 1; }  return 0;
CcQuery(t, q, hasOut) ==
  /\ proc = "running"
  /\ cc[t].at = "query"
  /\ \E o \in QueryOutcomes :
       LET le == LastErrorAfter(t, q, "skip", o)
           out == OutAfter(t, hasOut, NullPtr, o)
       IN /\ last_error' = le
          /\ ccLast' = [att |-> cc[t].att, ret |-> QueryRet(o),
                        msg |-> Deref(le, out)]
  /\ cc' = [cc EXCEPT ![t].at = "idle"]
  /\ UNCHANGED <<variant, engineUp, engines, proc, extState, loadingBy,
                 loadRuns, loadsDone, catalog_attached, pc, cur, last,
                 pgCatalog, verifyVars, registryVars,
                 txnVars, sessionVars>>

InitAttach == Init /\ variant = "manager"

NextAttach ==
  \/ EngineInit
  \/ \E t \in Threads : CcBegin(t)
  \/ \E t \in Threads : CcAttach(t)
  \/ \E t \in Threads : CcWrite(t)
  \/ \E t \in Threads, q \in Queries, hasOut \in BOOLEAN : CcQuery(t, q, hasOut)

SpecAttach == InitAttach /\ [][NextAttach]_vars

(* ------------------- the Metadata Backend Registry -------------------- *)

\* The factories bound to a name.
Lookup(reg, name) == {b[2] : b \in {c \in reg : c[1] = name}}

\* Calls of Register made so far, for the names in S.
RECURSIVE RegTotal(_)
RegTotal(S) ==
  IF S = {} THEN 0
  ELSE LET n == CHOOSE m \in S : TRUE
       IN regCalls[n] + RegTotal(S \ {n})

\* Register adds the binding beside the one the name has.
BindBeside(reg, name, f) == reg \cup {<<name, f>>}
\* The name's binding is replaced.
Rebind(reg, name, f) == {b \in reg : b[1] /= name} \cup {<<name, f>>}

\* Create for a name without a binding falls back on a built-in backend.
DefaultFallback == {"SQLiteMetadataManager"}
\* Create for a name without a binding invokes no factory.
NoFallback == {}

\* static void DuckLakeMetadataManager::Register(name, create), called by
\* `caller`. With the name bound already the registry's policy decides:
\* the call is refused with DuplicateRegistration, or the binding is
\* replaced. The policy is the same at every call.
DoRegister(name, f, caller) ==
  /\ proc = "running"
  /\ RegTotal(Names) < MaxRegistrations
  /\ regCalls' = [regCalls EXCEPT ![name] = @ + 1]
  /\ firstReg' = IF firstReg[name] = "none"
                   THEN [firstReg EXCEPT ![name] = f] ELSE firstReg
  /\ latestReg' = [latestReg EXCEPT ![name] = f]
  /\ LET known == Lookup(registry, name) /= {}
     IN \E p \in Policies :
          /\ policy /= "unset" => p = policy
          /\ policy' = IF known THEN p ELSE policy
          /\ LET refused == known /\ p = "reject"
                 reg2 == IF refused THEN registry
                         ELSE Rebind(registry, name, f)
             IN /\ registry' = reg2
                /\ regDone' = IF refused THEN regDone
                              ELSE [regDone EXCEPT ![name] = @ + 1]
                /\ regLast' =
                     [NoReg EXCEPT !.op = "register", !.name = name,
                        !.known = known, !.factory = f,
                        !.outcome = IF refused THEN "DuplicateRegistration"
                                    ELSE "ok",
                        !.changed = reg2 /= registry,
                        !.host = IF caller /= "sql" THEN "none"
                                 ELSE IF refused THEN "error" ELSE "ok"]
                /\ proc' = IF refused /\ caller = "extern_c"
                             THEN "crashed" ELSE proc
  /\ UNCHANGED <<made, pgInit>>
  /\ UNCHANGED <<variant, engineUp, engines, extState, loadingBy, loadRuns,
                 loadsDone, catalog_attached, last_error, pc, cur, last,
                 verifyVars, attachVars, txnVars, sessionVars>>

\* DuckLakeMetadataManager::Register(name, create) called by C++ code.
RegisterCall(name, f) ==
  /\ variant = "manager"
  /\ DoRegister(name, f, "cpp")

\* ducklake_init_extension(): Register("pgducklake",
\* PgDuckLakeMetadataManager::Create), with nothing to catch what Register
\* throws.
InitExtensionCall ==
  /\ variant = "manager"
  /\ DoRegister("pgducklake", "PgDuckLakeMetadataManager", "extern_c")

\* register_custom_metadata_manager(): Register("json",
\* &custom::JSONMetadataManager::Create) under try; returns 'ok: registered
\* json metadata manager', or raises an ERROR with what was thrown.
RegisterCustomCall ==
  /\ variant = "manager"
  /\ DoRegister("json", "JSONMetadataManager", "sql")

\* static unique_ptr<DuckLakeMetadataManager> Create(transaction) for a
\* catalog whose backend name is `name`: the factory bound to the name is
\* invoked; without a binding the call fails with UnknownBackend.
CreateCall(name) ==
  /\ proc = "running"
  /\ variant = "manager"
  /\ LET bound == Lookup(registry, name)
         fs == IF bound = {} THEN NoFallback ELSE bound
     IN IF fs = {}
          THEN /\ regLast' = [NoReg EXCEPT !.op = "create", !.name = name,
                                !.known = bound /= {},
                                !.outcome = "UnknownBackend"]
               /\ made' = made
          ELSE \E f \in fs :
                 /\ regLast' = [NoReg EXCEPT !.op = "create", !.name = name,
                                  !.known = bound /= {}, !.outcome = "ok",
                                  !.factory = f,
                                  !.changed = f \notin made]
                 /\ made' = made \cup {f}
  /\ UNCHANGED <<registry, policy, regCalls, regDone, firstReg, latestReg,
                 pgInit>>
  /\ UNCHANGED <<bridgeVars, verifyVars, attachVars, txnVars, sessionVars>>

NextRegistry ==
  \/ \E name \in Names, f \in Factories : RegisterCall(name, f)
  \/ InitExtensionCall
  \/ RegisterCustomCall
  \/ \E name \in Names : CreateCall(name)

InitRegistry == Init /\ variant = "manager"

SpecRegistry == InitRegistry /\ [][NextRegistry]_vars

(* ------------------- _PG_init of the manager build -------------------- *)

\* _PG_init(): "Load DuckLake extension into pg_duckdb's DuckDB instance":
\*   ducklake_load_extension();
\* and nothing else: ducklake_init_extension() is not called.
PgInit(t) ==
  /\ variant = "manager"
  /\ IsBackendThread(t)
  /\ pgInit = "no"
  /\ LoadCallBody(t)
  /\ pgInit' = "called"
  /\ UNCHANGED <<registry, policy, regCalls, regDone, firstReg, latestReg,
                 made, regLast>>
  /\ UNCHANGED <<verifyVars, attachVars, txnVars, sessionVars>>

\* _PG_init was called and has returned.
PgInitReturned ==
  /\ pgInit = "called"
  /\ proc = "running"
  /\ \A t \in Threads : IsBackendThread(t) => pc[t] = "idle"

NextInit ==
  \/ EngineInit
  \/ \E t \in Threads : PgInit(t)
  \/ \E t \in Threads : RunLoad(t)
  \/ InitExtensionCall
  \/ \E t \in Threads : IsBackendThread(t) /\ CcBegin(t)
  \/ \E t \in Threads : CcAttach(t)
  \/ \E t \in Threads : CcWrite(t)
  \/ \E t \in Threads, q \in Queries, hasOut \in BOOLEAN : CcQuery(t, q, hasOut)

SpecInit == InitRegistry /\ [][NextInit]_vars

(* ------------- transactions of Metadata Backend Instances ------------- *)

\* The change the open transaction of instance i makes, if it has made it.
OwnChange(i) == IF txn[i].open /\ txn[i].wrote THEN {<<i, txn[i].n>>} ELSE {}

\* Changes made by open transactions: not committed, not rolled back.
Uncommitted == UNION {OwnChange(i) : i \in Instances}

\* A reader sees whatever any transaction has written.
VisibleDirty(i) == committed \cup Uncommitted
\* What instance i sees: its snapshot and its own change.
Visible(i) == txn[i].snapshot \cup OwnChange(i)

\* Transactions begun so far by the instances in S.
RECURSIVE TxnTotal(_)
TxnTotal(S) ==
  IF S = {} THEN 0
  ELSE LET i == CHOOSE j \in S : TRUE
       IN txn[i].n + TxnTotal(S \ {i})

\* BeginTransaction() / GetSnapshot() of a new instance.
BeginTransaction(i) ==
  /\ ~txn[i].open
  /\ TxnTotal(Instances) < MaxTxns
  /\ txn' = [txn EXCEPT ![i] = [open |-> TRUE, n |-> txn[i].n + 1,
                                wrote |-> FALSE, snapshot |-> committed]]
  /\ UNCHANGED <<committed, aborted, readLast>>
  /\ UNCHANGED <<bridgeVars, verifyVars, attachVars, registryVars,
                 sessionVars>>

\* A catalog operation (create_table, register_data_file, ...) under the
\* instance's transaction.
WriteChange(i) ==
  /\ txn[i].open
  /\ ~txn[i].wrote
  /\ txn' = [txn EXCEPT ![i].wrote = TRUE]
  /\ UNCHANGED <<committed, aborted, readLast>>
  /\ UNCHANGED <<bridgeVars, verifyVars, attachVars, registryVars,
                 sessionVars>>

\* A read (LoadTables, GetDataFiles, ...) under the instance's transaction.
ReadCatalog(i) ==
  /\ txn[i].open
  /\ LET seen == Visible(i)
     IN readLast' = [by |-> i, seen |-> seen,
                     dirty |-> {c \in seen : c \notin committed /\ c[1] /= i},
                     leaked |-> seen \cap aborted,
                     pending |-> Uncommitted \ OwnChange(i)]
  /\ UNCHANGED <<txn, committed, aborted>>
  /\ UNCHANGED <<bridgeVars, verifyVars, attachVars, registryVars,
                 sessionVars>>

\* CommitTransaction(): the transaction's change becomes part of the
\* catalog.
CommitTransaction(i) ==
  /\ txn[i].open
  /\ committed' = committed \cup OwnChange(i)
  /\ txn' = [txn EXCEPT ![i].open = FALSE, ![i].wrote = FALSE,
                        ![i].snapshot = {}]
  /\ UNCHANGED <<aborted, readLast>>
  /\ UNCHANGED <<bridgeVars, verifyVars, attachVars, registryVars,
                 sessionVars>>

\* RollbackTransaction(): the transaction's change is discarded.
RollbackTransaction(i) ==
  /\ txn[i].open
  /\ aborted' = aborted \cup OwnChange(i)
  /\ txn' = [txn EXCEPT ![i].open = FALSE, ![i].wrote = FALSE,
                        ![i].snapshot = {}]
  /\ UNCHANGED <<committed, readLast>>
  /\ UNCHANGED <<bridgeVars, verifyVars, attachVars, registryVars,
                 sessionVars>>

NextTxn ==
  \/ \E i \in Instances : BeginTransaction(i)
  \/ \E i \in Instances : WriteChange(i)
  \/ \E i \in Instances : ReadCatalog(i)
  \/ \E i \in Instances : CommitTransaction(i)
  \/ \E i \in Instances : RollbackTransaction(i)

SpecTxn == InitRegistry /\ [][NextTxn]_vars

(* --------------- the names pg_ducklake_next_verify works on ----------- *)

DigitChars == <<"0", "1", "2", "3", "4", "5", "6", "7", "8", "9">>

\* What %d prints for a non-negative number: its decimal digits.
RECURSIVE Decimal(_)
Decimal(n) ==
  IF n < 10 THEN <<DigitChars[n + 1]>>
  ELSE Decimal(n \div 10) \o <<DigitChars[(n % 10) + 1]>>

\* One alias for every session.
AliasFixed(pid) == <<"pg_ducklake_next">>
\* psprintf("pg_ducklake_next_%d", MyProcPid)
Alias(pid) == <<"pg_ducklake_next_">> \o Decimal(pid)

\* psprintf("%s.ducklake", alias)
MetadataPath(pid) == Alias(pid) \o <<".ducklake">>

\* psprintf("%s_data", alias)
DataPath(pid) == Alias(pid) \o <<"_data">>

\* The names a run of pg_ducklake_next_verify in backend pid works on.
NamesOf(pid) ==
  {[name |-> n, pid |-> pid] :
     n \in {Alias(pid), MetadataPath(pid), DataPath(pid)}}

\* The postmaster forks a backend: it gets a pid no live process has.
BackendStart(pid) ==
  /\ backends[pid] = "off"
  /\ backends' = [backends EXCEPT ![pid] = "idle"]
  /\ UNCHANGED <<touched, bridgeVars, verifyVars, attachVars, registryVars,
                 txnVars>>

\* A backend that is not inside a call exits; its pid is free again.
BackendExit(pid) ==
  /\ backends[pid] = "idle"
  /\ backends' = [backends EXCEPT ![pid] = "off"]
  /\ UNCHANGED <<touched, bridgeVars, verifyVars, attachVars, registryVars,
                 txnVars>>

\* pg_ducklake_next_verify() is entered in backend pid and builds its alias,
\* metadata path and data path.
SessionNames(pid) ==
  /\ backends[pid] = "idle"
  /\ backends' = [backends EXCEPT ![pid] = "named"]
  /\ UNCHANGED <<touched, bridgeVars, verifyVars, attachVars, registryVars,
                 txnVars>>

\* ATTACH 'ducklake:<metadata_path>' AS <alias> (DATA_PATH '<data_path>'):
\* from here on the run works on the three names.
SessionAttach(pid) ==
  /\ backends[pid] = "named"
  /\ backends' = [backends EXCEPT ![pid] = "attached"]
  /\ touched' = touched \cup NamesOf(pid)
  /\ UNCHANGED <<bridgeVars, verifyVars, attachVars, registryVars, txnVars>>

\* The run ends, by DETACH and return or by an ERROR.
SessionEnd(pid) ==
  /\ backends[pid] \in {"named", "attached"}
  /\ backends' = [backends EXCEPT ![pid] = "idle"]
  /\ touched' = {e \in touched : e.pid /= pid}
  /\ UNCHANGED <<bridgeVars, verifyVars, attachVars, registryVars, txnVars>>

InitSession == Init /\ variant \in {"bridge", "spi"}

NextSession ==
  \/ \E pid \in Pids : BackendStart(pid)
  \/ \E pid \in Pids : BackendExit(pid)
  \/ \E pid \in Pids : SessionNames(pid)
  \/ \E pid \in Pids : SessionAttach(pid)
  \/ \E pid \in Pids : SessionEnd(pid)

SpecSession == InitSession /\ [][NextSession]_vars

(* ------------------------------- C11 ---------------------------------- *)

\* C11: a call of ducklake_execute_query during which the automatic
\* ATTACH failed reports that failure: it returns a non-zero status and
\* hands the caller the attach error.
C11_AttachFailureIsReported ==
  ccLast.att = "fail" => (ccLast.ret /= 0 /\ ccLast.msg = AttachFailText)

(* ------------------------------- C16 ---------------------------------- *)

AttachAsked(t) == cc[t].att \in {"ok", "fail"}

C12_RetryAfterFailureIsSafe ==
  (verify.prev = "error" /\ verify.res = "error") => verify.fail = "env"

(* ------------------------------- C13 ---------------------------------- *)

AllSucceeded(log) == \A i \in 1..Len(log) : log[i].outcome = "ok"

\* C13: pg_ducklake_next_verify returns its 'ok: ...' text exactly when
\* every statement of its plan was issued and succeeded; it issues the
\* statements in the plan's order, each at most once, and none after a
\* failure.
C13_OkIffEveryStatementSucceeded ==
  LET plan == VerifyPlan(variant)
      log == verify.log
  IN /\ Len(log) <= Len(plan)
     /\ \A i \in 1..Len(log) : log[i].stmt = plan[i]
     /\ \A i \in 1..Len(log) : i < Len(log) => log[i].outcome = "ok"
     /\ verify.res = "ok" <=>
          (verify.step = 0 /\ Len(log) = Len(plan) /\ AllSucceeded(log))

\* A run of the SPI build went through all seven statements and returned ok.
C13_Witness ==
  /\ verify.res = "ok"
  /\ Len(verify.log) = Len(SpiPlan)

(* ------------------------------- C14 ---------------------------------- *)

C15_AttachIsIdempotent ==
  /\ catalog.attached <= 1
  /\ (stmtLast.stmt \in {"ATTACH", "ATTACH_INE"} /\ stmtLast.wasAttached)
       => stmtLast.outcome \notin StateErrors

(* ------------------------------- C17 ---------------------------------- *)

\* C17: once _PG_init has returned, the backend "pgducklake" has been
\* registered exactly once, and no automatic ATTACH of
\* 'ducklake:pgducklake:' is sent before that registration.
C17_RegisteredOnceInPgInit ==
  /\ PgInitReturned => regDone["pgducklake"] = 1
  /\ \A t \in Threads :
       AttachAsked(t) => (pgInit = "called" /\ regDone["pgducklake"] = 1)

(* ------------------------------- C18 ---------------------------------- *)

\* The factory a name is bound to under the policy in force.
ExpectedBinding(name) ==
  IF regCalls[name] = 0 THEN Lookup(PreRegistered, name)
  ELSE IF policy = "reject"
    THEN (IF Lookup(PreRegistered, name) /= {}
            THEN Lookup(PreRegistered, name) ELSE {firstReg[name]})
  ELSE {latestReg[name]}

\* C18: registering a bound name again follows one fixed policy: either
\* every such call is refused with DuplicateRegistration and the first
\* factory stays, or every such call succeeds and the latest factory
\* wins; no name is ever bound to more than one factory.
C18_OnePolicyOneFactory ==
  /\ \A name \in Names : Cardinality(Lookup(registry, name)) <= 1
  /\ \A name \in Names : Lookup(registry, name) = ExpectedBinding(name)
  /\ (regLast.op = "register" /\ regLast.known) =>
       /\ policy \in Policies
       /\ policy = "reject" =>
            (regLast.outcome = "DuplicateRegistration" /\ ~regLast.changed)
       /\ policy = "overwrite" =>
            (regLast.outcome = "ok"
             /\ Lookup(registry, regLast.name) = {regLast.factory})

\* A name was registered twice with different factories.
C18_Witness ==
  \E name \in Names :
    /\ regCalls[name] = 2
    /\ firstReg[name] /= latestReg[name]
    /\ regLast.op = "register"
    /\ regLast.name = name

(* ------------------------------- C19 ---------------------------------- *)

\* C19: Create for a name that has no binding fails with UnknownBackend,
\* invokes no factory and changes nothing.
C19_UnknownBackend ==
  (regLast.op = "create" /\ ~regLast.known) =>
    /\ regLast.outcome = "UnknownBackend"
    /\ regLast.factory = "none"
    /\ ~regLast.changed

\* Create was asked for "json" while only other names were bound.
C19_Witness ==
  /\ regLast.op = "create"
  /\ regLast.name = "json"
  /\ ~regLast.known
  /\ regDone["pgducklake"] = 1
  /\ made /= {}

(* ------------------------------- C20 ---------------------------------- *)

\* A bridge operation that ran on an engine instance.
RanOnEngine(l) ==
  /\ l.op \in {"ensure", "query", "adapter"}
  /\ l.engineUp
  /\ variant \in {"bridge", "manager"}

\* C20: the process holds at most one engine instance, pg_duckdb's; every
\* bridge operation (ensure, query, adapter query) worked on the instance
\* GetDuckDBDatabase returns, and none of them constructed another one.
C20_OneEngineInstance ==
  /\ Cardinality(engines) <= 1
  /\ engineUp <=> engines = {PgDuckdbInstance}
  /\ RanOnEngine(last) =>
        /\ last.db = GetDuckDBDatabase
        /\ last.db \in engines

\* A query has run on a connection after the extension was loaded, all on
\* the one instance.
C20_Witness ==
  /\ last.op = "query"
  /\ last.db = PgDuckdbInstance
  /\ loadsDone >= 1
  /\ engines = {PgDuckdbInstance}

(* ------------------------------- C21 ---------------------------------- *)

\* C21: the extension load is invoked only once pg_duckdb's engine exists
\* and never from _PG_init: no load has been entered without an engine
\* instance, and a process whose only caller of the load is _PG_init has
\* entered none.
C21_LoadOnlyAfterEngineInit ==
  /\ last.op = "ensure" => last.engineUp
  /\ pgInit = "called" =>
       /\ last.op /= "ensure"
       /\ loadRuns = 0
       /\ \A t \in Threads : pc[t] \notin {"el_load", "el_wait"}

(* ------------------------------- C22 ---------------------------------- *)

\* C22: a read never shows a change of another instance's transaction
\* that had not committed when the read was made, and never a change that
\* had been rolled back; no change is both committed and rolled back.
C22_TransactionIsolation ==
  /\ readLast.dirty = {}
  /\ readLast.leaked = {}
  /\ committed \cap aborted = {}

\* An instance read the catalog while another instance's change was
\* uncommitted, after one change had been committed and one rolled back;
\* it saw the committed one.
C22_Witness ==
  /\ readLast.pending /= {}
  /\ readLast.seen \cap committed /= {}
  /\ aborted /= {}

(* ------------------------------- C23 ---------------------------------- *)

\* A run of pg_ducklake_next_verify has ended without its 'ok' text.
RunFailed == verify.step = 0 /\ verify.res \notin {"none", "running", "ok"}

\* C23: once a step of pg_ducklake_next_verify has failed, no later step is
\* sent to the engine, the run does not return 'ok', and the run ends with
\* an ERROR raised to the host that reports that first failure.
C23_FirstFailureIsRethrown ==
  LET log == verify.log
  IN /\ \A k \in 1..Len(log) :
          log[k].outcome /= "ok" =>
            /\ k = Len(log)
            /\ verify.step = 0
            /\ verify.res = "error"
            /\ verify.raised = log[k]
     /\ RunFailed =>
          /\ verify.res = "error"
          /\ verify.raised /= NoRaise

(* ------------------------------- C24 ---------------------------------- *)

\* A run of the SPI build's pg_ducklake_next_verify has left the function.
SpiRunEnded ==
  variant = "spi" /\ verify.step = 0 /\ verify.res \in {"ok", "error"}

\* C24: a run of the SPI build that connected to SPI has called SPI_finish
\* exactly once when it leaves the function, by return or by re-throw, and
\* not before; a run whose SPI_connect failed has not called it.
C24_SpiFinishOncePerConnect ==
  /\ SpiRunEnded => verify.finishes = IF verify.connected THEN 1 ELSE 0
  /\ verify.step > 0 => verify.finishes = 0

\* A connected run of the SPI build ended by re-throwing the error of a
\* failed statement, after one SPI_finish.
C24_Witness ==
  /\ SpiRunEnded
  /\ verify.connected
  /\ verify.res = "error"
  /\ verify.raised.stmt = "ATTACH"
  /\ verify.finishes = 1

(* ------------------------------- C25 ---------------------------------- *)

\* C25: a ducklake_execute_query call that returned 0 has left *errmsg_out
\* as the caller passed it in; the host adapter, which starts from NULL,
\* holds NULL after a successful query and a message only after a failed
\* one.
C25_SuccessLeavesErrmsgAlone ==
  /\ (last.op \in {"query", "adapter"} /\ last.ret = 0) =>
       last.out = last.out0
  /\ last.op = "adapter" =>
       /\ last.out0 = NullPtr
       /\ last.out /= NullPtr <=> last.ret /= 0

\* A caller passed in the pointer of an earlier failure and the query
\* succeeded: its pointer still leads to that earlier message.
C25_Witness ==
  /\ last.op = "query"
  /\ last.ret = 0
  /\ last.hasOut
  /\ last.out0 /= NullPtr
  /\ last.out = last.out0
  /\ last.msg /= NoText

(* ------------------------------- C26 ---------------------------------- *)

\* Backends inside pg_ducklake_next_verify.
Verifying == {pid \in Pids : backends[pid] \in {"named", "attached"}}

\* C26: two backends that run pg_ducklake_next_verify at the same time
\* have different aliases, metadata paths and data paths, and no name one
\* of them works on is a name the other works on.
C26_NamesUniquePerSession ==
  /\ \A p, q \in Verifying :
       p /= q =>
         /\ Alias(p) /= Alias(q)
         /\ MetadataPath(p) /= MetadataPath(q)
         /\ DataPath(p) /= DataPath(q)
  /\ \A a, b \in touched : a.name = b.name => a.pid = b.pid

\* Two backends are attached at the same time, each with its own three
\* names in use.
C26_Witness ==
  \E p, q \in Pids :
    /\ p /= q
    /\ backends[p] = "attached" /\ backends[q] = "attached"
    /\ NamesOf(p) \cup NamesOf(q) \subseteq touched
    /\ Cardinality(touched) = 6

(* ------------------------------- C27 ---------------------------------- *)

\* C27: pg_ducklake_next_verify can be repeated in one backend: a run that
\* follows a run that returned 'ok', with nothing else touching the catalog
\* in between, does not fail on what the first run left behind; when it
\* fails at all, it fails for a reason of the environment.
C27_VerifyRepeatable ==
  (verify.prev = "ok" /\ verify.res = "error") => verify.fail = "env"

====
